---- MODULE Spec2Model ----
(***************************************************************************)
(* The SSO code-exchange / redemption protocol of src/sso.rs:              *)
(* authorize_url, exchange_code and redeem running as concurrent request   *)
(* handlers over the process-wide AC_CACHE and the persisted sso_nonce     *)
(* table, against an OpenID Connect provider.                              *)
(*                                                                         *)
(* An Option<T> is modelled as a set with at most one element: {} is None  *)
(* and {x} is Some(x).  A String is a TLA+ string; the refresh token a     *)
(* provider issues is the pair <<code, serial>> and the empty String of    *)
(* String::new() is the empty tuple <<>>.  Nonce::new_random hands out the *)
(* values 1, 2, ..: each is new.                                           *)
(*                                                                         *)
(* The nonce table is persisted and the cache is not: the process starts   *)
(* with an empty cache and a table that is empty or holds the nonce of an  *)
(* authorization request made before it started.                           *)
(***************************************************************************)
EXTENDS Integers, FiniteSets, Sequences, TLC

\* ------------------------------------------------------------- bounds ----
Procs == {"p1", "p2"}            \* request handlers that may run at once
Codes == {"c1", "c2"}            \* authorization codes the callers present

MaxCalls == 3                    \* calls of the public operations in a run
MaxNonces == 2                   \* nonce values in play
MaxIssue == 2                    \* token responses a provider gives per code
MaxTicks == 2                    \* clock steps in a run
TickSecs == 300                  \* seconds per clock step

\* ---------------------------------------------------------- constants ----
TTL_SECS == 10 * 60              \* time_to_live(Duration::from_secs(10 * 60))

\* What the provider knows about the login behind a code.  The login behind
\* "c1" gets an email claim in its ID token and a refresh token; the one
\* behind "c2" gets neither: its email comes from the userinfo endpoint, if
\* at all.
IdTokenEmail(c) == IF c = "c1" THEN {"alice@idtoken"} ELSE {}
UserInfoEmail(c) == IF c = "c1" THEN "alice@userinfo" ELSE "bob@userinfo"
GivesRefreshToken(c) == c = "c1"

VARIABLES
    AC_CACHE,      \* the cache: a function from the codes it holds to
                   \* [value, at]: an AuthenticatedUser [nonce,
                   \* refresh_token, email] and the time it was inserted
    sso_nonces,    \* the sso_nonce table: the set of persisted nonce values
    nextNonce,     \* the next value Nonce::new_random returns
    issued,        \* provider: successful token responses given per code
    now,           \* the clock, in seconds
    calls,         \* calls begun so far
    pc,            \* per handler: where it stands
    loc,           \* per handler: its local variables
    last,          \* history: the call begun last: what it found as it
                   \*   began, the outside calls it has made since and the
                   \*   ApiResult it returned
    lastOk,        \* history, per code: the last successful exchange_code
                   \*   (its email, its token endpoint calls, the refresh
                   \*   token the provider gave), forgotten when a redeem of
                   \*   the code begins
    everOk,        \* history, per code: an exchange_code has succeeded
    afterRedeem,   \* history, per code: the last call on the code was a redeem
    redeemed,      \* history, per code: the nonce a successful redeem deleted
    released,      \* history, per code: redeem calls that returned the token
    lifeExchanges  \* history, per code: provider exchanges whose identity
                   \*   was inserted during the entry's current lifetime

vars == <<AC_CACHE, sso_nonces, nextNonce, issued, now, calls,
          pc, loc, last, lastOk, everOk, afterRedeem,
          redeemed, released, lifeExchanges>>

shared == <<AC_CACHE, sso_nonces, nextNonce, issued, now>>
history == <<lastOk, everOk, afterRedeem, redeemed, released, lifeExchanges>>

\* ------------------------------------------------------------ results ----
Pending == [tag |-> "pending"]
Ok(v) == [tag |-> "Ok", val |-> v]
Err(msg) == [tag |-> "Err", err |-> msg]

IsOk(r) == r.tag = "Ok"
IsErr(r) == r.tag = "Err"

\* ------------------------------------------------------ handler frames ---
NoLoc == [code |-> {}, au |-> {}, refresh_token |-> <<>>, id_token |-> {},
          sso_nonce |-> {}]

CodeOf(p) == CHOOSE c \in loc[p].code : TRUE

\* What the call handler p begins (operation op on the codes cs: one code,
\* or none for authorize_url) finds: whether the cache holds an entry for
\* the code and whether its age is below the time to live, that entry's
\* nonce and whether it is in the nonce table, the cache, the nonce table and
\* the code's history.  The other fields note the outside calls the
\* handler makes from then on.
Begun(p, op, cs) ==
    [owner |-> p, op |-> op, code |-> cs,
     cached |-> IF cs \cap DOMAIN AC_CACHE = {} THEN "absent"
                ELSE IF \E c \in cs : now - AC_CACHE[c].at < TTL_SECS
                     THEN "live" ELSE "expired",
     nonce |-> {AC_CACHE[c].value.nonce : c \in cs \cap DOMAIN AC_CACHE},
     stored |-> \E c \in cs \cap DOMAIN AC_CACHE :
                    AC_CACHE[c].value.nonce \in sso_nonces,
     cache |-> AC_CACHE, store |-> sso_nonces,
     lastOk |-> UNION {lastOk[c] : c \in cs},
     everOk |-> \E c \in cs : everOk[c],
     afterRedeem |-> \E c \in cs : afterRedeem[c],
     redeemed |-> UNION {redeemed[c] : c \in cs},
     get_client |-> 0, token |-> 0, user_info |-> 0,
     id_email |-> {}, save |-> "none", find |-> "none", delete |-> "none",
     ret |-> Pending]

NoCall ==
    [owner |-> "nobody", op |-> "none", code |-> {}, cached |-> "absent",
     nonce |-> {}, stored |-> FALSE, cache |-> [k \in {} |-> {}],
     store |-> {}, lastOk |-> {}, everOk |-> FALSE,
     afterRedeem |-> FALSE, redeemed |-> {},
     get_client |-> 0, token |-> 0, user_info |-> 0,
     id_email |-> {}, save |-> "none", find |-> "none", delete |-> "none",
     ret |-> Pending]

\* Handler p's call goes on: if it is the call begun last, its record
\* becomes noted.
Note(p, noted) == last' = IF noted.owner = p THEN noted ELSE last

\* ---------------------------------------------------------- the cache ----
\* mini_moka: an entry is expired once its age has reached the time to live.
Expired(entry) == now - entry.at >= TTL_SECS

\* A lookup that finds nothing.
CacheGet_AlwaysMiss(c) == {}

\* A lookup that returns an entry however old it is.
CacheGet_IgnoreTtl(c) ==
    IF c \in DOMAIN AC_CACHE THEN {AC_CACHE[c].value} ELSE {}

\* AC_CACHE.get(code): Some(value) for a key held and not expired.
CacheGet(c) ==
    IF c \in DOMAIN AC_CACHE /\ ~Expired(AC_CACHE[c])
    THEN {AC_CACHE[c].value}
    ELSE {}

\* AC_CACHE.insert(code, authenticated_user): insert or replace; the entry's
\* time to live starts anew.
CacheInsert(c, value) ==
    [k \in DOMAIN AC_CACHE \cup {c} |->
        IF k = c THEN [value |-> value, at |-> now] ELSE AC_CACHE[k]]

\* An invalidate that removes nothing.
CacheInvalidate_Noop(c) == AC_CACHE

\* AC_CACHE.invalidate(code).
CacheInvalidate(c) ==
    [k \in DOMAIN AC_CACHE \ {c} |-> AC_CACHE[k]]

\* ------------------------------------------------------- the nonce table -
\* SsoNonce::save: Ok adds the record, Err adds nothing.
NonceSave(n, ok) == IF ok THEN sso_nonces \cup {n} ELSE sso_nonces

\* SsoNonce::find: Some(record) when a record with this value is stored.
NonceFind(n) == IF n \in sso_nonces THEN {n} ELSE {}

\* SsoNonce::delete: Ok removes the record, Err leaves the table as it is.
NonceDelete(n, ok) == IF ok THEN sso_nonces \ {n} ELSE sso_nonces

\* ----------------------------------------------------------- provider ----
\* get_client(): a configured URL is malformed (CONFIG.sso_issuer_url()?,
\* CONFIG.sso_redirect_url()?), discovery fails, or a client is built.
GetClientOutcomes == {"ok", "config_error", "discover_error"}

GetClientError(out) ==
    IF out = "config_error"
    THEN Err("Invalid SSO URL")
    ELSE Err("Failed to discover OpenID provider")

\* The nonces an ID token may carry: those of the authorization requests
\* made so far, whether their nonce was persisted, consumed or neither.
NonceValues == 1 .. nextNonce - 1

\* The token endpoint accepts a code it has not answered yet; whether it
\* rejects a spent one is the provider's policy, which this code does not
\* control: either answer is possible.
ProviderAccepts(c) == issued[c] < MaxIssue /\ NonceValues # {}

\* So far the provider has answered no code twice: it has behaved as one
\* that enforces single use.
SingleUse == \A c \in Codes : issued[c] <= 1

Garbage == [decodable |-> FALSE, email |-> {}, nonce |-> 0]

\* The ID tokens a token response for code c may carry: an undecodable one,
\* or the login's claims with the nonce of its authorization request.
IdTokens(c) ==
    {Garbage} \cup
    {[decodable |-> TRUE, email |-> IdTokenEmail(c), nonce |-> n] :
        n \in NonceValues}

\* The token responses the endpoint may give for code c: with the refresh
\* token the login is entitled to, with or without an ID token.
TokenResponses(c) ==
    {[refresh_token |-> IF GivesRefreshToken(c)
                        THEN {<<c, issued[c] + 1>>} ELSE {},
      id_token |-> t] :
        t \in {{}} \cup {{x} : x \in IdTokens(c)}}

\* What the userinfo endpoint may answer for code c.
UserInfoOutcomes(c) ==
    {[tag |-> "no_endpoint", email |-> {}],
     [tag |-> "request_failed", email |-> {}],
     [tag |-> "ok", email |-> {}],
     [tag |-> "ok", email |-> {UserInfoEmail(c)}]}

\* ------------------------------------------------------------- start ----
Init ==
    /\ AC_CACHE = [k \in {} |-> {}]
    /\ \E k \in 0 .. 1 :
        /\ sso_nonces = 1 .. k
        /\ nextNonce = k + 1
    /\ issued = [c \in Codes |-> 0]
    /\ now = 0
    /\ calls = 0
    /\ pc = [p \in Procs |-> "idle"]
    /\ loc = [p \in Procs |-> NoLoc]
    /\ last = NoCall
    /\ lastOk = [c \in Codes |-> {}]
    /\ everOk = [c \in Codes |-> FALSE]
    /\ afterRedeem = [c \in Codes |-> FALSE]
    /\ redeemed = [c \in Codes |-> {}]
    /\ released = [c \in Codes |-> 0]
    /\ lifeExchanges = [c \in Codes |-> 0]

\* A handler is free to take a new call.
CanBegin(p) == pc[p] = "idle" /\ calls < MaxCalls

\* Handler p returns r, its call's record being noted: its locals are
\* dropped and it is free again.
Finish(p, r, noted) ==
    /\ pc' = [pc EXCEPT ![p] = "idle"]
    /\ loc' = [loc EXCEPT ![p] = NoLoc]
    /\ Note(p, [noted EXCEPT !.ret = r])

\* Handler p goes on to step s with locals l, its call's record being noted.
Goto(p, s, l, noted) ==
    /\ pc' = [pc EXCEPT ![p] = s]
    /\ loc' = [loc EXCEPT ![p] = l]
    /\ Note(p, noted)

\* The call begun last has returned.
Returned == last.ret # Pending

\* ------------------------------------------------------ authorize_url ----
\* The URL returned whatever became of the save.
AuthorizeResult_IgnoreSave(saved, nonce) == Ok([nonce |-> nonce])

\* sso_nonce.save(&mut conn).await?;  Ok(auth_url)
\* The URL is known by the nonce it carries.
AuthorizeResult(saved, nonce) ==
    IF saved THEN Ok([nonce |-> nonce]) ELSE Err("Error saving SSO nonce")

\* let client = get_client().await?;
\* client.authorize_url(.., Nonce::new_random) .. .url();
\* SsoNonce::new(nonce).save(&mut conn).await?;  Ok(auth_url)
AuthorizeUrl(p) ==
    /\ CanBegin(p)
    /\ nextNonce <= MaxNonces
    /\ calls' = calls + 1
    /\ LET begun == Begun(p, "authorize_url", {}) IN
       \E out \in GetClientOutcomes :
        IF out # "ok"
        THEN /\ Finish(p, GetClientError(out),
                       [begun EXCEPT !.get_client = 1])
             /\ UNCHANGED <<sso_nonces, nextNonce>>
        ELSE \E ok \in BOOLEAN :
             /\ nextNonce' = nextNonce + 1
             /\ sso_nonces' = NonceSave(nextNonce, ok)
             /\ Finish(p, AuthorizeResult(ok, nextNonce),
                       [begun EXCEPT !.get_client = 1,
                                     !.save = IF ok THEN "ok" ELSE "err"])
    /\ UNCHANGED <<AC_CACHE, issued, now, history>>

\* ------------------------------------------------------ exchange_code ----
\* return Ok(authenticated_user.email);
ExchangeHit(authenticated_user) == Ok(authenticated_user.email)

\* if let Some(authenticated_user) = AC_CACHE.get(code) { return Ok(email) }
ExchangeCode_CacheGet(p, c) ==
    /\ CanBegin(p)
    /\ calls' = calls + 1
    /\ afterRedeem' = [afterRedeem EXCEPT ![c] = FALSE]
    /\ IF CacheGet(c) # {}
       THEN LET authenticated_user == CHOOSE e \in CacheGet(c) : TRUE IN
            /\ Finish(p, ExchangeHit(authenticated_user),
                      Begun(p, "exchange_code", {c}))
            /\ lastOk' = [lastOk EXCEPT ![c] =
                            {[email |-> authenticated_user.email,
                              token_calls |-> 0,
                              refresh_token |->
                                  authenticated_user.refresh_token]}]
            /\ everOk' = [everOk EXCEPT ![c] = TRUE]
       ELSE /\ Goto(p, "e_token", [NoLoc EXCEPT !.code = {c}],
                    Begun(p, "exchange_code", {c}))
            /\ UNCHANGED <<lastOk, everOk>>
    /\ UNCHANGED <<shared, redeemed, released, lifeExchanges>>

\* A missing refresh token rendered as the text "None".
RefreshTokenOf_NoneText(token_response) ==
    IF token_response.refresh_token = {}
    THEN <<"None">>
    ELSE CHOOSE r \in token_response.refresh_token : TRUE

\* token_response.refresh_token().map_or(String::new(), ..)
RefreshTokenOf(token_response) ==
    IF token_response.refresh_token = {}
    THEN <<>>
    ELSE CHOOSE r \in token_response.refresh_token : TRUE

\* let client = get_client().await?;
\* match client.exchange_code(oidc_code).request_async(..).await { .. }
\* up to the test whether the response carries an ID token.
ExchangeCode_TokenRequest(p) ==
    /\ pc[p] = "e_token"
    /\ LET c == CodeOf(p) IN
       \/ \E out \in GetClientOutcomes \ {"ok"} :
          /\ Finish(p, GetClientError(out), [last EXCEPT !.get_client = 1])
          /\ UNCHANGED issued
       \/ /\ Finish(p, Err("Failed to contact token endpoint"),
                    [last EXCEPT !.get_client = 1, !.token = 1])
          /\ UNCHANGED issued
       \/ /\ ProviderAccepts(c)
          /\ \E token_response \in TokenResponses(c) :
              LET noted == [last EXCEPT !.get_client = 1, !.token = 1] IN
              /\ issued' = [issued EXCEPT ![c] = issued[c] + 1]
              /\ IF token_response.id_token = {}
                 THEN Finish(p, Err("Token response did not contain an id_token"),
                             noted)
                 ELSE Goto(p, "e_userinfo",
                           [loc[p] EXCEPT
                              !.refresh_token = RefreshTokenOf(token_response),
                              !.id_token = token_response.id_token],
                           noted)
    /\ UNCHANGED <<AC_CACHE, sso_nonces, nextNonce, now, calls, history>>

\* A decode that also checks the ID token's nonce against the nonce table
\* and rejects a token whose nonce is not there.
DecodeIdToken_CheckNonce(id_token) ==
    IF id_token.decodable /\ id_token.nonce \in sso_nonces
    THEN {[email |-> id_token.email, nonce |-> id_token.nonce]}
    ELSE {}

\* jsonwebtoken::decode::<TokenPayload>(id_token, .., &validation) with the
\* signature check disabled: the claims of a well-formed, unexpired token.
DecodeIdToken(id_token) ==
    IF id_token.decodable
    THEN {[email |-> id_token.email, nonce |-> id_token.nonce]}
    ELSE {}

\* match token.email { Some(email) => email, None => user_info.email() }
ResolveEmail(token, user_info) ==
    IF token.email # {} THEN token.email ELSE user_info.email

\* AuthenticatedUser { nonce: token.nonce, refresh_token, email }
AuthenticatedUser(token, refresh_token, email) ==
    [nonce |-> token.nonce, refresh_token |-> refresh_token, email |-> email]

\* An exchange_code that builds and inserts the identity before it has
\* resolved the email: the missing-email failure leaves an entry behind.
ExchangeOutcome_InsertFirst(id_token, refresh_token, user_info) ==
    IF user_info.tag = "no_endpoint"
    THEN [ret |-> Err("No user_info endpoint"), insert |-> {}]
    ELSE IF user_info.tag = "request_failed"
    THEN [ret |-> Err("Request to user_info endpoint failed"), insert |-> {}]
    ELSE IF DecodeIdToken(id_token) = {}
    THEN [ret |-> Err("Could not decode id token"), insert |-> {}]
    ELSE LET token == CHOOSE t \in DecodeIdToken(id_token) : TRUE
             resolved == ResolveEmail(token, user_info)
         IN
         IF resolved = {}
         THEN [ret |-> Err("Neither id token nor userinfo contained an email"),
               insert |-> {AuthenticatedUser(token, refresh_token, "")}]
         ELSE LET email == CHOOSE e \in resolved : TRUE IN
              [ret |-> Ok(email),
               insert |-> {AuthenticatedUser(token, refresh_token, email)}]

\* What exchange_code makes of a token response's ID token and refresh
\* token and of the userinfo answer: the result it returns and the identity
\* it inserts in the cache, if any.  It fails on a missing userinfo endpoint
\* or a failed userinfo request, then on an undecodable ID token, then on an
\* email found in neither source.
ExchangeOutcome(id_token, refresh_token, user_info) ==
    IF user_info.tag = "no_endpoint"
    THEN [ret |-> Err("No user_info endpoint"), insert |-> {}]
    ELSE IF user_info.tag = "request_failed"
    THEN [ret |-> Err("Request to user_info endpoint failed"), insert |-> {}]
    ELSE IF DecodeIdToken(id_token) = {}
    THEN [ret |-> Err("Could not decode id token"), insert |-> {}]
    ELSE LET token == CHOOSE t \in DecodeIdToken(id_token) : TRUE
             resolved == ResolveEmail(token, user_info)
         IN
         IF resolved = {}
         THEN [ret |-> Err("Neither id token nor userinfo contained an email"),
               insert |-> {}]
         ELSE LET email == CHOOSE e \in resolved : TRUE IN
              [ret |-> Ok(email),
               insert |-> {AuthenticatedUser(token, refresh_token, email)}]

\* client.user_info(access_token, None), endpoint.request_async(..).await,
\* and the rest of exchange_code, which awaits nothing more: decode the ID
\* token, resolve the email, AC_CACHE.insert(code, authenticated_user).
ExchangeCode_UserInfo(p) ==
    /\ pc[p] = "e_userinfo"
    /\ \E user_info \in UserInfoOutcomes(CodeOf(p)) :
        LET c == CodeOf(p)
            id_token == CHOOSE t \in loc[p].id_token : TRUE
            outcome == ExchangeOutcome(id_token, loc[p].refresh_token,
                                       user_info)
            noted == [last EXCEPT
                        !.user_info = IF user_info.tag = "no_endpoint"
                                      THEN 0 ELSE 1,
                        !.id_email = id_token.email]
        IN
        /\ Finish(p, outcome.ret, noted)
        /\ IF outcome.insert = {}
           THEN UNCHANGED <<AC_CACHE, lifeExchanges>>
           ELSE /\ AC_CACHE' = CacheInsert(c, CHOOSE u \in outcome.insert : TRUE)
                /\ lifeExchanges' = [lifeExchanges EXCEPT ![c] =
                        IF CacheGet(c) # {} THEN lifeExchanges[c] + 1 ELSE 1]
        /\ IF IsOk(outcome.ret)
           THEN /\ lastOk' = [lastOk EXCEPT ![c] =
                                {[email |-> outcome.ret.val,
                                  token_calls |-> 1,
                                  refresh_token |-> loc[p].refresh_token]}]
                /\ everOk' = [everOk EXCEPT ![c] = TRUE]
           ELSE UNCHANGED <<lastOk, everOk>>
    /\ UNCHANGED <<sso_nonces, nextNonce, issued, now, calls,
                   afterRedeem, redeemed, released>>

\* -------------------------------------------------------------- redeem ---
\* err!("Failed to retrieve user info from sso cache")
CacheMiss == Err("Failed to retrieve user info from sso cache")

\* A redeem that returns an empty String for the token.
RedeemResult_Empty(au) == Ok(<<>>)

\* Ok(_) => Ok(au.refresh_token)
RedeemResult(au) == Ok(au.refresh_token)

\* if let Some(au) = AC_CACHE.get(code) { .. } else { err!(..) }
Redeem_CacheGet(p, c) ==
    /\ CanBegin(p)
    /\ calls' = calls + 1
    /\ lastOk' = [lastOk EXCEPT ![c] = {}]
    /\ afterRedeem' = [afterRedeem EXCEPT ![c] =
                          afterRedeem[c] \/ lastOk[c] # {}]
    /\ IF CacheGet(c) # {}
       THEN Goto(p, "r_invalidate",
                 [NoLoc EXCEPT !.code = {c}, !.au = CacheGet(c)],
                 Begun(p, "redeem", {c}))
       ELSE Finish(p, CacheMiss, Begun(p, "redeem", {c}))
    /\ UNCHANGED <<shared, everOk, redeemed, released, lifeExchanges>>

\* AC_CACHE.invalidate(code);
Redeem_Invalidate(p) ==
    /\ pc[p] = "r_invalidate"
    /\ AC_CACHE' = CacheInvalidate(CodeOf(p))
    /\ lifeExchanges' = [lifeExchanges EXCEPT ![CodeOf(p)] = 0]
    /\ Goto(p, "r_find", loc[p], last)
    /\ UNCHANGED <<sso_nonces, nextNonce, issued, now, calls,
                   lastOk, everOk, afterRedeem, redeemed, released>>

\* A redeem that returns the token when it finds no nonce.
Redeem_Find_TokenAnyway(p) ==
    /\ pc[p] = "r_find"
    /\ LET au == CHOOSE e \in loc[p].au : TRUE
           sso_nonce == NonceFind(au.nonce)
       IN
       IF sso_nonce # {}
       THEN Goto(p, "r_delete", [loc[p] EXCEPT !.sso_nonce = sso_nonce],
                 [last EXCEPT !.find = "found"])
       ELSE Finish(p, RedeemResult(au), [last EXCEPT !.find = "missing"])
    /\ UNCHANGED <<shared, calls, history>>

\* A redeem that looks for the nonce again when it finds none.
Redeem_Find_Again(p) ==
    /\ pc[p] = "r_find"
    /\ LET au == CHOOSE e \in loc[p].au : TRUE
           sso_nonce == NonceFind(au.nonce)
       IN
       IF sso_nonce # {}
       THEN Goto(p, "r_delete", [loc[p] EXCEPT !.sso_nonce = sso_nonce],
                 [last EXCEPT !.find = "found"])
       ELSE Goto(p, "r_find", loc[p], [last EXCEPT !.find = "missing"])
    /\ UNCHANGED <<shared, calls, history>>

\* if let Some(sso_nonce) = SsoNonce::find(&au.nonce, conn).await { .. }
Redeem_Find(p) ==
    /\ pc[p] = "r_find"
    /\ LET au == CHOOSE e \in loc[p].au : TRUE
           sso_nonce == NonceFind(au.nonce)
       IN
       IF sso_nonce # {}
       THEN Goto(p, "r_delete", [loc[p] EXCEPT !.sso_nonce = sso_nonce],
                 [last EXCEPT !.find = "found"])
       ELSE Finish(p, Err("Failed to retrive nonce from db"),
                   [last EXCEPT !.find = "missing"])
    /\ UNCHANGED <<shared, calls, history>>

\* A redeem that returns the token whatever became of the deletion.
DeleteResult_IgnoreError(deleted, au) == RedeemResult(au)

\* match sso_nonce.delete(conn).await { Err(msg) => err!(..),
\*                                      Ok(_) => Ok(au.refresh_token) }
DeleteResult(deleted, au) ==
    IF deleted THEN RedeemResult(au) ELSE Err("Failed to delete nonce")

\* match sso_nonce.delete(conn).await { Err(msg) => err!(..),
\*                                      Ok(_) => Ok(au.refresh_token) }
Redeem_Delete(p) ==
    /\ pc[p] = "r_delete"
    /\ LET c == CodeOf(p)
           au == CHOOSE e \in loc[p].au : TRUE
           sso_nonce == CHOOSE n \in loc[p].sso_nonce : TRUE
       IN
       \E ok \in BOOLEAN :
        /\ sso_nonces' = NonceDelete(sso_nonce, ok)
        /\ Finish(p, DeleteResult(ok, au),
                  [last EXCEPT !.delete = IF ok THEN "ok" ELSE "err"])
        /\ redeemed' = IF ok THEN [redeemed EXCEPT ![c] = {sso_nonce}]
                       ELSE redeemed
        /\ released' = IF IsOk(DeleteResult(ok, au))
                       THEN [released EXCEPT ![c] = released[c] + 1]
                       ELSE released
    /\ UNCHANGED <<AC_CACHE, nextNonce, issued, now, calls,
                   lastOk, everOk, afterRedeem, lifeExchanges>>

\* An eviction that takes the evicted identity's nonce out of the nonce
\* table with it.
Evict_WithNonce(c) ==
    /\ c \in DOMAIN AC_CACHE
    /\ AC_CACHE' = [k \in DOMAIN AC_CACHE \ {c} |-> AC_CACHE[k]]
    /\ sso_nonces' = sso_nonces \ {AC_CACHE[c].value.nonce}
    /\ lifeExchanges' = [lifeExchanges EXCEPT ![c] = 0]
    /\ UNCHANGED <<nextNonce, issued, now, calls, pc, loc, last,
                   lastOk, everOk, afterRedeem, redeemed, released>>

\* ------------------------------------------------- capacity pressure ----
\* max_capacity(1000): the cache evicts entries to stay within its capacity
\* as entries for other codes are inserted.  The codes that fill the cache
\* are left out of Codes; of their calls the model keeps the eviction they
\* may cause, which may befall any entry at any time.
Evict(c) ==
    /\ c \in DOMAIN AC_CACHE
    /\ AC_CACHE' = [k \in DOMAIN AC_CACHE \ {c} |-> AC_CACHE[k]]
    /\ lifeExchanges' = [lifeExchanges EXCEPT ![c] = 0]
    /\ UNCHANGED <<sso_nonces, nextNonce, issued, now, calls, pc, loc, last,
                   lastOk, everOk, afterRedeem, redeemed, released>>

\* ---------------------------------------------------------- the clock ---
\* Time passes.
Tick ==
    /\ now + TickSecs <= MaxTicks * TickSecs
    /\ now' = now + TickSecs
    /\ UNCHANGED <<AC_CACHE, sso_nonces, nextNonce, issued, calls,
                   pc, loc, last, history>>

\* ----------------------------------------------------- specifications ----
\* The handlers run concurrently, their steps interleaved in any order.
Next ==
    \/ \E p \in Procs : AuthorizeUrl(p)
    \/ \E p \in Procs, c \in Codes : ExchangeCode_CacheGet(p, c)
    \/ \E p \in Procs : ExchangeCode_TokenRequest(p)
    \/ \E p \in Procs : ExchangeCode_UserInfo(p)
    \/ \E p \in Procs, c \in Codes : Redeem_CacheGet(p, c)
    \/ \E p \in Procs : Redeem_Invalidate(p)
    \/ \E p \in Procs : Redeem_Find(p)
    \/ \E p \in Procs : Redeem_Delete(p)
    \/ \E c \in Codes : Evict(c)
    \/ Tick

Spec == Init /\ [][Next]_vars

\* What handler p does when a call it awaits responds: the next step of the
\* exchange_code or redeem it is in.
Resume(p) ==
    \/ ExchangeCode_TokenRequest(p)
    \/ ExchangeCode_UserInfo(p)
    \/ Redeem_Invalidate(p)
    \/ Redeem_Find(p)
    \/ Redeem_Delete(p)

\* A sequential run: one handler serves the calls one after the other.
SeqProcs == {"p1"}

SeqNext ==
    \/ \E p \in SeqProcs : AuthorizeUrl(p)
    \/ \E p \in SeqProcs, c \in Codes : ExchangeCode_CacheGet(p, c)
    \/ \E p \in SeqProcs : ExchangeCode_TokenRequest(p)
    \/ \E p \in SeqProcs : ExchangeCode_UserInfo(p)
    \/ \E p \in SeqProcs, c \in Codes : Redeem_CacheGet(p, c)
    \/ \E p \in SeqProcs : Redeem_Invalidate(p)
    \/ \E p \in SeqProcs : Redeem_Find(p)
    \/ \E p \in SeqProcs : Redeem_Delete(p)
    \/ \E c \in Codes : Evict(c)
    \/ Tick

SeqSpec == Init /\ [][SeqNext]_vars

\* A sequential run in which every provider and database call the handler
\* awaits responds in the end, and the handler is then resumed.
LiveSpec == SeqSpec /\ \A p \in SeqProcs : WF_vars(Resume(p))

\* --------------------------------------------------------- properties ----
\* The call begun last was operation op and has returned.
Done(op) == last.op = op /\ Returned

\* The successful exchange_code that the call begun last follows.
Prev == CHOOSE r \in last.lastOk : TRUE

\* C1 as stated: in a sequential run, the first redeem(code) after a
\* successful exchange_code(code), the nonce of the cached identity being in
\* the nonce table, returns the refresh token that exchange captured and
\* deletes the nonce, and a redeem(code) that immediately follows a redeem
\* fails.
C1_RedeemSucceedsOnce ==
    Done("redeem") =>
        /\ (last.lastOk # {} /\ last.stored) =>
                /\ IsOk(last.ret)
                /\ last.ret.val = Prev.refresh_token
                /\ last.nonce \cap sso_nonces = {}
        /\ last.afterRedeem => IsErr(last.ret)

\* C1 amended: in a sequential run, the first redeem(code) after a
\* successful exchange_code(code), the nonce of the cached identity being in
\* the nonce table, returns the refresh token that exchange captured and
\* deletes the nonce if the cache still holds the entry at the lookup
\* (neither expired nor evicted) and the deletion succeeds; it fails if the
\* entry has expired or been evicted, or the deletion fails.  Either way the
\* entry is gone afterwards, and a redeem(code) that immediately follows a
\* redeem fails.
C1_RedeemOnceWhileLive ==
    Done("redeem") =>
        /\ (last.lastOk # {} /\ last.stored) =>
                IF last.cached = "live" /\ last.delete # "err"
                THEN /\ IsOk(last.ret)
                     /\ last.ret.val = Prev.refresh_token
                     /\ last.nonce \cap sso_nonces = {}
                     /\ last.code \cap DOMAIN AC_CACHE = {}
                ELSE /\ IsErr(last.ret)
                     /\ last.cached = "live" =>
                            last.code \cap DOMAIN AC_CACHE = {}
                     /\ last.cached # "live" => last.ret = CacheMiss
        /\ last.afterRedeem => IsErr(last.ret)

\* C1's case: a first redeem has returned the refresh token and deleted the
\* nonce, and the redeem that followed it has failed.
C1_Witness ==
    /\ Done("redeem")
    /\ last.afterRedeem
    /\ last.redeemed # {}
    /\ \E c \in last.code : released[c] = 1
    /\ last.ret = CacheMiss

\* The handlers that are in a redeem of code c, past its cache hit.
RedeemersPastHit(c) ==
    {p \in Procs : pc[p] \in {"r_invalidate", "r_find", "r_delete"}
                   /\ loc[p].code = {c}}

\* C2 as stated: of the redeem calls for one code that run concurrently,
\* only one observes the cache hit and at most one returns the refresh
\* token (the provider having answered no code twice).
C2_OneRedeemerHits ==
    SingleUse =>
        \A c \in Codes :
            /\ Cardinality(RedeemersPastHit(c)) <= 1
            /\ released[c] <= 1

\* C3: an exchange_code(code) that follows a successful exchange_code(code),
\* no redeem of the code in between and the cache entry still held and not
\* expired, succeeds with the same email, and the two calls together contact
\* the token endpoint at most once.
C3_SecondExchangeFromCache ==
    (Done("exchange_code") /\ last.lastOk # {} /\ last.cached = "live") =>
        /\ IsOk(last.ret)
        /\ last.ret.val = Prev.email
        /\ Prev.token_calls + last.token <= 1

\* C3's case: the first call went to the provider, the second was answered
\* from the cache.
C3_Witness ==
    /\ Done("exchange_code")
    /\ last.lastOk # {}
    /\ last.cached = "live"
    /\ Prev.token_calls = 1
    /\ IsOk(last.ret)
    /\ last.token = 0

\* C4 as stated: during the lifetime of a code's cache entry, at most one
\* provider exchange made for the code has succeeded, however the
\* exchange_code calls interleave.
C4_OneExchangePerLifetime ==
    \A c \in Codes : lifeExchanges[c] <= 1

\* C5: a redeem(code) that no successful exchange_code(code) precedes
\* fails, looks up and deletes no nonce, and leaves the nonce table as it
\* found it.
C5_RedeemWithoutExchangeFails ==
    (Done("redeem") /\ ~last.everOk) =>
        /\ IsErr(last.ret)
        /\ last.find = "none"
        /\ last.delete = "none"
        /\ sso_nonces = last.store

\* C5's case: the redeem comes after a failed exchange_code of the code that
\* the provider had answered, and finds a nonce in the table.
C5_Witness ==
    /\ Done("redeem")
    /\ ~last.everOk
    /\ \E c \in last.code : issued[c] > 0
    /\ last.store # {}
    /\ IsErr(last.ret)

\* C6: an authorize_url that succeeds returns a URL whose nonce is in the
\* nonce table as the call returns, and an authorize_url whose client could
\* not be built or whose nonce could not be saved fails.
C6_UrlNonceIsStored ==
    Done("authorize_url") =>
        /\ IsOk(last.ret) => last.ret.val.nonce \in sso_nonces
        /\ last.save # "ok" => IsErr(last.ret)

\* C6's case: one authorize_url has failed on the save and the next has
\* returned its URL.
C6_Witness ==
    /\ Done("authorize_url")
    /\ IsOk(last.ret)
    /\ last.ret.val.nonce = 2
    /\ sso_nonces = {2}

\* C7: an exchange_code that fails creates no cache entry and replaces
\* none: every entry the cache holds was there, the same, as the call began.
C7_FailedExchangeLeavesCache ==
    (Done("exchange_code") /\ IsErr(last.ret)) =>
        \A c \in DOMAIN AC_CACHE :
            c \in DOMAIN last.cache /\ AC_CACHE[c] = last.cache[c]

\* C7's case: the provider answered the token request and the call failed
\* afterwards, for want of an email.
C7_Witness ==
    /\ Done("exchange_code")
    /\ last.token = 1
    /\ last.user_info = 1
    /\ last.ret = Err("Neither id token nor userinfo contained an email")

\* C8 as stated: on a cache miss answered by the token endpoint with an ID
\* token that carries an email, exchange_code returns that email, whether or
\* not the userinfo endpoint is available.
C8_IdTokenEmailSuffices ==
    (Done("exchange_code") /\ last.token = 1 /\ last.id_email # {}) =>
        /\ IsOk(last.ret)
        /\ last.ret.val \in last.id_email

\* C9: once a redeem(code) has succeeded, the provider answering no code
\* twice, the cache holds no entry for the code, the nonce it deleted is not
\* in the nonce table, and a redeem(code) begun since fails at the lookup.
C9_RedeemedIsTerminal ==
    SingleUse =>
        \A c \in Codes :
            redeemed[c] # {} =>
                /\ c \notin DOMAIN AC_CACHE
                /\ redeemed[c] \cap sso_nonces = {}
                /\ (Done("redeem") /\ last.code = {c} /\ last.redeemed # {})
                        => last.ret = CacheMiss

\* C9's case: a redeem has succeeded, and a redeem of the code that handler
\* "p2" began since has failed.
C9_Witness ==
    /\ SingleUse
    /\ Done("redeem")
    /\ last.owner = "p2"
    /\ last.redeemed # {}
    /\ last.ret = CacheMiss
    /\ \E c \in last.code : c \notin DOMAIN AC_CACHE /\ released[c] = 1

\* C10: a call that finds the code's cache entry older than the time to
\* live does not get it: an exchange_code goes to the provider for a fresh
\* exchange, returning an email only if the token endpoint answered, and a
\* redeem fails with a cache miss.
C10_ExpiredEntryIsNotReturned ==
    (Returned /\ last.cached = "expired") =>
        /\ last.op = "exchange_code" =>
                /\ last.get_client = 1
                /\ last.token = 1
                        \/ last.ret \in {GetClientError(out) :
                                            out \in GetClientOutcomes \ {"ok"}}
                /\ IsOk(last.ret) => last.token = 1
        /\ last.op = "redeem" =>
                /\ last.ret = CacheMiss
                /\ last.find = "none"

\* C10's case: the entry has expired and a second exchange with the
\* provider has replaced it.
C10_Witness ==
    /\ Done("exchange_code")
    /\ last.cached = "expired"
    /\ last.token = 1
    /\ IsOk(last.ret)
    /\ \E c \in last.code \cap DOMAIN AC_CACHE :
            lifeExchanges[c] = 1 /\ AC_CACHE[c].at = now

\* The emails the provider may give for the login behind code c.
Emails(c) == IdTokenEmail(c) \cup {UserInfoEmail(c)}

\* C11: an exchange_code that succeeds returns an email of the login, never
\* the refresh token, and a redeem returns the refresh token only after it
\* has found the cached identity's nonce in the nonce table and deleted it.
C11_TokenOnlyByRedeem ==
    /\ (Done("exchange_code") /\ IsOk(last.ret)) =>
            \E c \in last.code : last.ret.val \in Emails(c)
    /\ (Done("redeem") /\ IsOk(last.ret)) =>
            /\ last.stored
            /\ last.find = "found"
            /\ last.delete = "ok"
    /\ \A c \in Codes : released[c] > 0 => redeemed[c] # {}

\* C11's case: exchange_code has answered from the cache with the email
\* while the entry held a refresh token, which a redeem then returned after
\* deleting the nonce.
C11_Witness ==
    /\ Done("redeem")
    /\ last.lastOk # {}
    /\ Prev.token_calls = 0
    /\ Prev.refresh_token # <<>>
    /\ IsOk(last.ret)
    /\ last.ret.val = Prev.refresh_token
    /\ last.delete = "ok"

\* The redeem calls that have returned a refresh token after finding nonce
\* n in the nonce table.
RECURSIVE RedemptionsIn(_, _)
RedemptionsIn(cs, n) ==
    IF cs = {} THEN 0
    ELSE LET c == CHOOSE x \in cs : TRUE IN
         (IF redeemed[c] = {n} THEN released[c] ELSE 0)
            + RedemptionsIn(cs \ {c}, n)

\* C12 as stated: however the redeem calls interleave, whether for one code
\* or for different codes whose identities carry the same nonce, at most
\* one of them finds a given nonce and returns a refresh token (the provider
\* having answered no code twice).
C12_OneRedemptionPerNonce ==
    SingleUse => \A n \in NonceValues : RedemptionsIn(Codes, n) <= 1

\* C13: in a sequential run, a redeem that hit the cache leaves the cache
\* without an entry for the code whatever it returns; if the deletion of the
\* nonce fails, it returns an error and the nonce record remains; and the
\* token of an identity a redeem has consumed is not returned afterwards: a
\* redeem that follows a redeem misses the cache, and a redeem that succeeds
\* returns the token of an exchange_code made since the redeem before it.
C13_NoRollback ==
    Done("redeem") =>
        /\ last.cached = "live" =>
                /\ last.code \cap DOMAIN AC_CACHE = {}
                /\ last.delete = "err" =>
                        /\ IsErr(last.ret)
                        /\ last.nonce \subseteq sso_nonces
                        /\ sso_nonces = last.store
        /\ last.afterRedeem => last.ret = CacheMiss
        /\ IsOk(last.ret) =>
                /\ last.lastOk # {}
                /\ last.ret.val = Prev.refresh_token

\* C13's case: the deletion has failed: the redeem has returned the error,
\* the entry that held a refresh token is gone and the nonce is still in the
\* table.
C13_Witness ==
    /\ Done("redeem")
    /\ last.delete = "err"
    /\ last.ret = Err("Failed to delete nonce")
    /\ last.lastOk # {}
    /\ Prev.refresh_token # <<>>
    /\ last.code \cap DOMAIN AC_CACHE = {}
    /\ last.nonce # {}
    /\ last.nonce \subseteq sso_nonces

\* C14: in a sequential run, a redeem that finds the code's identity in the
\* cache while its nonce is not in the nonce table fails with the
\* nonce-not-found error, having deleted nothing: the nonce table is as the
\* call found it.
C14_NonceNotFound ==
    (Done("redeem") /\ last.cached = "live" /\ ~last.stored) =>
        /\ last.ret = Err("Failed to retrive nonce from db")
        /\ last.find = "missing"
        /\ last.delete = "none"
        /\ sso_nonces = last.store

\* C14's case: the nonce of the identity was never persisted (its save
\* failed), the exchange_code succeeded all the same, and the redeem has
\* failed.
C14_Witness ==
    /\ Done("redeem")
    /\ last.cached = "live"
    /\ last.lastOk # {}
    /\ last.nonce # {}
    /\ last.nonce \cap last.store = {}
    /\ last.find = "missing"
    /\ IsErr(last.ret)

\* C15: the step of an exchange_code that finds the code in the cache, held
\* and not expired, is the whole call: it returns the cached email, has
\* made no provider call (discovery, token endpoint, userinfo) and no
\* database call, and leaves the cache, the nonce table and the provider as
\* they were; the entry is still there.
C15_CacheHitIsReadOnly ==
    [][\A p \in Procs, c \in Codes :
        (/\ ExchangeCode_CacheGet(p, c)
         /\ c \in DOMAIN AC_CACHE
         /\ ~Expired(AC_CACHE[c]))
        => /\ pc'[p] = "idle"
           /\ last'.ret = Ok(AC_CACHE[c].value.email)
           /\ last'.get_client = 0
           /\ last'.token = 0
           /\ last'.user_info = 0
           /\ last'.save = "none"
           /\ last'.find = "none"
           /\ last'.delete = "none"
           /\ AC_CACHE' = AC_CACHE
           /\ sso_nonces' = sso_nonces
           /\ nextNonce' = nextNonce
           /\ issued' = issued]_vars

\* C15's case: handler "p2" has been answered from the cache while handler
\* "p1", in a redeem of the same code, was about to invalidate the entry.
C15_Witness ==
    /\ Done("exchange_code")
    /\ last.owner = "p2"
    /\ last.cached = "live"
    /\ IsOk(last.ret)
    /\ last.get_client = 0
    /\ pc["p1"] = "r_invalidate"
    /\ loc["p1"].code = last.code
    /\ last.code \subseteq DOMAIN AC_CACHE

\* C17: for a login to which the provider gives no refresh token, in a
\* sequential run: the identity the cache holds for its code has the empty
\* String for refresh token, a redeem of the code that succeeds returns the
\* empty String, and an exchange_code that the token endpoint answered with
\* an ID token fails for no reason but the userinfo request, the decoding of
\* the ID token or the missing email.
C17_EmptyRefreshToken ==
    \A c \in Codes :
        ~GivesRefreshToken(c) =>
            /\ c \in DOMAIN AC_CACHE =>
                    AC_CACHE[c].value.refresh_token = <<>>
            /\ (Done("redeem") /\ last.code = {c} /\ IsOk(last.ret)) =>
                    last.ret.val = <<>>
            /\ (Done("exchange_code") /\ last.code = {c}
                    /\ last.user_info = 1 /\ IsErr(last.ret)) =>
                    last.ret \in
                        {Err("Request to user_info endpoint failed"),
                         Err("Could not decode id token"),
                         Err("Neither id token nor userinfo contained an email")}

\* C17's case: the token response held no refresh token, the exchange_code
\* went to the provider and succeeded, and the redeem has returned the empty
\* String.
C17_Witness ==
    /\ Done("redeem")
    /\ \E c \in last.code : ~GivesRefreshToken(c)
    /\ last.lastOk # {}
    /\ Prev.token_calls = 1
    /\ last.delete = "ok"
    /\ last.ret = Ok(<<>>)

\* How far into its call a handler is: the awaits it has behind it.
Rank(at) ==
    CASE at = "idle" -> 0
      [] at \in {"e_token", "r_invalidate"} -> 1
      [] at \in {"e_userinfo", "r_find"} -> 2
      [] at = "r_delete" -> 3

\* C18: every call a handler has begun returns in the end, the calls it
\* awaits responding; and no step takes a handler back to a call it has
\* already made: each step returns or takes it further into its operation.
C18_EveryCallReturns ==
    /\ \A p \in Procs : (pc[p] # "idle") ~> (pc[p] = "idle")
    /\ [][\A p \in Procs :
            \/ pc'[p] = pc[p]
            \/ pc'[p] = "idle"
            \/ Rank(pc'[p]) > Rank(pc[p])]_vars

\* C18's case: some time after start, a redeem of an exchanged code has gone
\* through its three awaited calls (invalidate, find, delete) and returned.
C18_Witness ==
    /\ Done("redeem")
    /\ last.delete # "none"
    /\ pc[last.owner] = "idle"
    /\ now > 0
    /\ last.cache # AC_CACHE
    /\ last.lastOk # {}

\* C19: exchange_code makes no call to the nonce table and leaves it as it
\* was; and once the userinfo endpoint has been asked, an ID token that
\* carries an email fails the exchange in no way but by the userinfo
\* request failing, whatever nonce it carries.
C19_ExchangeIgnoresNonceStore ==
    Done("exchange_code") =>
        /\ last.save = "none"
        /\ last.find = "none"
        /\ last.delete = "none"
        /\ sso_nonces = last.store
        /\ (last.user_info = 1 /\ last.id_email # {} /\ IsErr(last.ret)) =>
                last.ret = Err("Request to user_info endpoint failed")

\* C19's case: an exchange has succeeded and cached an identity whose nonce
\* is not in the nonce table.
C19_Witness ==
    /\ Done("exchange_code")
    /\ last.token = 1
    /\ IsOk(last.ret)
    /\ \E c \in last.code :
        /\ c \in DOMAIN AC_CACHE
        /\ AC_CACHE[c].value.nonce \notin sso_nonces

\* C20: the nonce table changes only by an authorize_url that adds the one
\* nonce it generated and by a redeem that deletes the record it found;
\* exchanges, expiry, eviction and the other steps of a redeem leave it as
\* it is.
C20_NonceStoreFrame ==
    [][sso_nonces' # sso_nonces =>
        \/ /\ last'.op = "authorize_url"
           /\ last'.save = "ok"
           /\ IsOk(last'.ret)
           /\ last'.ret.val.nonce = nextNonce
           /\ calls' = calls + 1
           /\ sso_nonces' = sso_nonces \cup {nextNonce}
        \/ \E p \in Procs :
            /\ pc[p] = "r_delete"
            /\ pc'[p] = "idle"
            /\ loc[p].sso_nonce # {}
            /\ sso_nonces' = sso_nonces \ loc[p].sso_nonce]_vars

\* C20's case: a redeem has missed an identity that an exchange had cached
\* and that is gone from the cache unredeemed; its nonce, the only one ever
\* generated, is still in the table.
C20_Witness ==
    /\ Done("redeem")
    /\ last.ret = CacheMiss
    /\ last.lastOk # {}
    /\ ~last.afterRedeem
    /\ last.find = "none"
    /\ \A c \in last.code : redeemed[c] = {}
    /\ NonceValues = {1}
    /\ last.store = {1}
    /\ sso_nonces = {1}

====
